---- MODULE Spec2Model ----
(***************************************************************************)
(* Regional Medical Surge Radar (surge_radar.py).                          *)
(*                                                                         *)
(* The script is a Streamlit page: every change of a sidebar widget reruns *)
(* the whole script top to bottom with the widgets' current values.  The   *)
(* state is the four widget values and the values the last run computed    *)
(* and displayed.  One action per widget; each action is the widget change *)
(* followed by the complete rerun of the script.                           *)
(*                                                                         *)
(* The script computes in Python floats (IEEE-754 binary64, round to       *)
(* nearest, ties to even).  The arithmetic below is that arithmetic, bit   *)
(* for bit: a float is a sign, a 53-bit significand and a binary exponent, *)
(* and the significands are held as sequences of 15-bit limbs because the  *)
(* products need 106 bits.                                                 *)
(***************************************************************************)
EXTENDS Integers, Sequences, FiniteSets

(***************************************************************************)
(* Natural numbers of arbitrary size: little-endian sequences of limbs,    *)
(* no leading (most significant) zero limb; zero is the empty sequence.    *)
(***************************************************************************)
LimbBits == 15

Base == 2 ^ LimbBits

Min(a, b) == IF a <= b THEN a ELSE b

Max(a, b) == IF a >= b THEN a ELSE b

RECURSIVE BigNorm(_)
BigNorm(s) ==
    IF s = <<>> THEN <<>>
    ELSE IF s[Len(s)] = 0 THEN BigNorm(SubSeq(s, 1, Len(s) - 1))
    ELSE s

RECURSIVE BigFromInt(_)
BigFromInt(n) ==
    IF n = 0 THEN <<>> ELSE <<n % Base>> \o BigFromInt(n \div Base)

RECURSIVE BigToInt(_)
BigToInt(s) ==
    IF s = <<>> THEN 0 ELSE s[1] + Base * BigToInt(Tail(s))

RECURSIVE BigAddC(_, _, _)
BigAddC(a, b, c) ==
    IF a = <<>> /\ b = <<>> THEN (IF c = 0 THEN <<>> ELSE <<c>>)
    ELSE LET x == IF a = <<>> THEN 0 ELSE a[1]
             y == IF b = <<>> THEN 0 ELSE b[1]
             t == x + y + c
         IN  <<t % Base>> \o BigAddC(IF a = <<>> THEN <<>> ELSE Tail(a),
                                     IF b = <<>> THEN <<>> ELSE Tail(b),
                                     t \div Base)

BigAdd(a, b) == BigAddC(a, b, 0)

RECURSIVE BigMulSmallC(_, _, _)
BigMulSmallC(a, k, c) ==
    IF a = <<>> THEN (IF c = 0 THEN <<>> ELSE <<c>>)
    ELSE LET t == a[1] * k + c
         IN  <<t % Base>> \o BigMulSmallC(Tail(a), k, t \div Base)

\* a * k for 0 <= k < Base
BigMulSmall(a, k) == IF k = 0 THEN <<>> ELSE BigMulSmallC(a, k, 0)

RECURSIVE BigMul(_, _)
BigMul(a, b) ==
    IF a = <<>> \/ b = <<>> THEN <<>>
    ELSE LET rest == BigMul(Tail(a), b)
         IN  BigAdd(BigMulSmall(b, a[1]),
                    IF rest = <<>> THEN <<>> ELSE <<0>> \o rest)

\* quotient and remainder of a by d, 0 < d <= Base
RECURSIVE BigDivModSmall(_, _)
BigDivModSmall(a, d) ==
    IF a = <<>> THEN [q |-> <<>>, r |-> 0]
    ELSE LET hi  == BigDivModSmall(Tail(a), d)
             cur == hi.r * Base + a[1]
         IN  [q |-> BigNorm(<<cur \div d>> \o hi.q), r |-> cur % d]

RECURSIVE SmallBitLen(_)
SmallBitLen(n) == IF n = 0 THEN 0 ELSE 1 + SmallBitLen(n \div 2)

BigBitLen(a) ==
    IF a = <<>> THEN 0
    ELSE (Len(a) - 1) * LimbBits + SmallBitLen(a[Len(a)])

Zeros(n) == [i \in 1..n |-> 0]

\* a * 2^k
BigShl(a, k) ==
    IF a = <<>> THEN <<>>
    ELSE Zeros(k \div LimbBits) \o BigMulSmall(a, 2 ^ (k % LimbBits))

\* floor(a / 2^k)
BigShr(a, k) ==
    LET drop == k \div LimbBits
    IN  IF drop >= Len(a) THEN <<>>
        ELSE BigDivModSmall(SubSeq(a, drop + 1, Len(a)), 2 ^ (k % LimbBits)).q

BigIsOdd(a) == a # <<>> /\ a[1] % 2 = 1

\* a < b, both normalised
RECURSIVE BigLess(_, _)
BigLess(a, b) ==
    IF Len(a) # Len(b) THEN Len(a) < Len(b)
    ELSE IF a = <<>> THEN FALSE
    ELSE IF a[Len(a)] # b[Len(b)] THEN a[Len(a)] < b[Len(b)]
    ELSE BigLess(BigNorm(SubSeq(a, 1, Len(a) - 1)) ,
                 BigNorm(SubSeq(b, 1, Len(b) - 1)))

(***************************************************************************)
(* Python float = IEEE-754 binary64.  A float is [neg, m, e] with value    *)
(* (-1)^neg * m * 2^e, where m is zero or has exactly MantBits bits.       *)
(* Every value the script computes lies between 2^-7 and 2^11, far from    *)
(* the subnormal and overflow ranges, so the exponent is unbounded here.   *)
(***************************************************************************)
MantBits == 53

FloatZero == [neg |-> FALSE, m |-> <<>>, e |-> 0]

\* The rounding is written as a chain of operators, each passing what it
\* computed to the next, so that every intermediate value is computed once.

\* r * 2^e, where r has MantBits bits or, after a carry, one more
Renormalise(r, e) ==
    IF BigBitLen(r) > MantBits
    THEN [neg |-> FALSE, m |-> BigShr(r, 1), e |-> e + 1]
    ELSE [neg |-> FALSE, m |-> r, e |-> e]

\* round up when the dropped s bits are more than half a unit of q, or
\* exactly half and q is odd; q2 = floor(n / 2^(s-1)), q = floor(n / 2^s)
RoundsUp(n, s, q2, q) ==
    BigIsOdd(q2) /\ (BigShl(q2, s - 1) # n \/ BigIsOdd(q))

RoundKeep(n, e, s, q2, q) ==
    Renormalise(IF RoundsUp(n, s, q2, q) THEN BigAdd(q, <<1>>) ELSE q, e + s)

RoundDrop(n, e, s, q2) == RoundKeep(n, e, s, q2, BigShr(q2, 1))

RoundLen(n, e, len) ==
    IF len <= MantBits
    THEN [neg |-> FALSE, m |-> BigShl(n, MantBits - len),
          e |-> e - (MantBits - len)]
    ELSE RoundDrop(n, e, len - MantBits, BigShr(n, len - MantBits - 1))

\* n * 2^e rounded to MantBits bits, round to nearest, ties to even
RoundNearestEven(n, e) ==
    IF n = <<>> THEN FloatZero ELSE RoundLen(n, e, BigBitLen(n))

WithSign(x, neg) == [neg |-> neg, m |-> x.m, e |-> x.e]

\* float(n) for a Python int n
FloatFromInt(n) ==
    IF n = 0 THEN FloatZero
    ELSE WithSign(RoundNearestEven(BigFromInt(IF n < 0 THEN 0 - n ELSE n), 0),
                  n < 0)

\* x * y
FloatMul(x, y) ==
    IF x.m = <<>> \/ y.m = <<>> THEN FloatZero
    ELSE WithSign(RoundNearestEven(BigMul(x.m, y.m), x.e + y.e),
                  x.neg # y.neg)

\* x + y for x >= 0 and y >= 0 (the script only adds non-negative values)
FloatAdd(x, y) ==
    IF x.m = <<>> THEN y
    ELSE IF y.m = <<>> THEN x
    ELSE LET lo == Min(x.e, y.e)
         IN  RoundNearestEven(BigAdd(BigShl(x.m, x.e - lo),
                                     BigShl(y.m, y.e - lo)), lo)

DivGuardBits == 70

\* twice the quotient, plus one when the division left a remainder
QuotientWithSticky(dm) ==
    BigAdd(BigMulSmall(dm.q, 2), IF dm.r = 0 THEN <<>> ELSE <<1>>)

\* a / b (true division of Python ints), 0 <= a, 0 < b < Base: the
\* correctly rounded quotient.  The same rounding gives the value of a
\* decimal literal such as 0.05 = 5/100.
FloatDivInt(a, b) ==
    IF a = 0 THEN FloatZero
    ELSE RoundNearestEven(
             QuotientWithSticky(
                 BigDivModSmall(BigShl(BigFromInt(a), DivGuardBits), b)),
             0 - DivGuardBits - 1)

\* int(x): truncation toward zero
FloatTrunc(x) ==
    (IF x.neg THEN 0 - 1 ELSE 1)
      * (IF x.m = <<>> THEN 0
         ELSE IF x.e >= 0 THEN BigToInt(BigShl(x.m, x.e))
         ELSE BigToInt(BigShr(x.m, 0 - x.e)))

\* x < y for x >= 0 and y >= 0
FloatLessNonNeg(x, y) ==
    IF y.m = <<>> THEN FALSE
    ELSE IF x.m = <<>> THEN TRUE
    ELSE IF x.e # y.e THEN x.e < y.e
    ELSE BigLess(x.m, y.m)

\* max(0, x): Python returns the first argument unless x > 0
PyMaxZero(x) == IF (~x.neg) /\ x.m # <<>> THEN x ELSE FloatZero

(***************************************************************************)
(* The script's constants and widget domains.                              *)
(***************************************************************************)
\* the capacity mistyped with a digit missing
BaselineMistyped == 80 \div 10

BASELINE_ED_CAPACITY == 80

CRITICAL_NEDOCS_THRESHOLD == 140

AttendanceMin == 10000

AttendanceMax == 150000

AttendanceStep == 5000

AttendanceDefault == 65000

TempMin == 60

TempMax == 120

TempDefault == 85

HumidityMin == 10

HumidityMax == 100

HumidityStep == 5

HumidityDefault == 60

Bounded == "Stadium (Bounded)"

Unbounded == "Fan Zone (Unbounded)"

\* the positions of the attendance slider and the value at position k
AttendanceSteps == 0..((AttendanceMax - AttendanceMin) \div AttendanceStep)

AttendanceAt(k) == AttendanceMin + AttendanceStep * k

AttendanceDomain == {AttendanceAt(k) : k \in AttendanceSteps}

TempDomain == TempMin..TempMax

\* the positions of the humidity slider and the value at position k
HumiditySteps == 0..((HumidityMax - HumidityMin) \div HumidityStep)

HumidityAt(k) == HumidityMin + HumidityStep * k

HumidityDomain == {HumidityAt(k) : k \in HumiditySteps}

VenueDomain == {Bounded, Unbounded}

ScoreCap == 200

HeatOverrideTemp == 98

(***************************************************************************)
(* The calculation block, line by line.                                    *)
(***************************************************************************)
base_ppr_per_10k == FloatFromInt(15)

\* the temperature difference taken the wrong way round: (85 - temp) * 0.05
HeatIndexMultiplierSwapped(t, h) ==
    FloatAdd(FloatAdd(FloatFromInt(1),
                      PyMaxZero(FloatMul(FloatFromInt(85 - t),
                                         FloatDivInt(5, 100)))),
             PyMaxZero(FloatMul(FloatFromInt(h - 60), FloatDivInt(1, 100))))

\* 1.0 + max(0, (temp - 85) * 0.05) + max(0, (humidity - 60) * 0.01)
HeatIndexMultiplier(t, h) ==
    FloatAdd(FloatAdd(FloatFromInt(1),
                      PyMaxZero(FloatMul(FloatFromInt(t - 85),
                                         FloatDivInt(5, 100)))),
             PyMaxZero(FloatMul(FloatFromInt(h - 60), FloatDivInt(1, 100))))

\* 2.0 if venue_type == "Fan Zone (Unbounded)" else 1.0
VenueMultiplier(v) ==
    IF v = Unbounded THEN FloatFromInt(2) ELSE FloatFromInt(1)

\* the division taken the wrong way round: (10000 / attendance) * 15.0;
\* 10000 / attendance = 2 / (attendance / 5000) on the slider's values
BasePresentationsInverted(a) ==
    FloatMul(FloatDivInt(2, a \div AttendanceStep), base_ppr_per_10k)

\* (attendance / 10000) * base_ppr_per_10k
BasePresentations(a) == FloatMul(FloatDivInt(a, 10000), base_ppr_per_10k)

\* the product above at every position of the attendance slider, computed once
base_table == [ak \in AttendanceSteps |-> BasePresentations(AttendanceAt(ak))]

\* int((attendance / 10000) * base_ppr_per_10k * him * vm)
TotalPatients(a, him, vm) ==
    FloatTrunc(FloatMul(FloatMul(base_table[(a - AttendanceMin) \div AttendanceStep],
                                 him),
                        vm))

\* int(total_patients * 0.65)
OnsiteTreat(tp) == FloatTrunc(FloatMul(FloatFromInt(tp), FloatDivInt(65, 100)))

\* the deflected share mistyped as 0.35
AcsTelehealthMistyped(tp) ==
    FloatTrunc(FloatMul(FloatFromInt(tp), FloatDivInt(35, 100)))

\* int(total_patients * 0.15)
AcsTelehealth(tp) == FloatTrunc(FloatMul(FloatFromInt(tp), FloatDivInt(15, 100)))

\* the third bucket truncated on its own: int(total_patients * 0.20)
EdTransportsOwnShare(tp, on, acs) ==
    FloatTrunc(FloatMul(FloatFromInt(tp), FloatDivInt(20, 100)))

\* total_patients - onsite_treat - acs_telehealth
EdTransports(tp, on, acs) == tp - on - acs

\* (ed_transports / BASELINE_ED_CAPACITY) * 60
SurgeBurden(ed) ==
    FloatMul(FloatDivInt(ed, BASELINE_ED_CAPACITY), FloatFromInt(60))

\* int(80 + surge_burden)
NedocsScore(sb) == FloatTrunc(FloatAdd(FloatFromInt(80), sb))

\* the cap left out
CapScoreMissing(s) == s

\* min(nedocs_score, 200)
CapScore(s) == Min(s, ScoreCap)

\* CRITICAL_NEDOCS_THRESHOLD * 0.95
warning_threshold ==
    FloatMul(FloatFromInt(CRITICAL_NEDOCS_THRESHOLD), FloatDivInt(95, 100))

\* the chain with the score tested before the temperature
BannerScoreFirst(t, score) ==
    IF score >= CRITICAL_NEDOCS_THRESHOLD THEN "Critical"
    ELSE IF t >= HeatOverrideTemp THEN "Override"
    ELSE IF ~FloatLessNonNeg(FloatFromInt(score), warning_threshold)
         THEN "Warning"
    ELSE "Normal"

\* the chain with the warning test strict: nedocs_score > warning_threshold
BannerStrictWarning(t, score) ==
    IF t >= HeatOverrideTemp THEN "Override"
    ELSE IF score >= CRITICAL_NEDOCS_THRESHOLD THEN "Critical"
    ELSE IF FloatLessNonNeg(warning_threshold, FloatFromInt(score))
         THEN "Warning"
    ELSE "Normal"

\* the if/elif chain that picks the one banner of a run
Banner(t, score) ==
    IF t >= HeatOverrideTemp THEN "Override"
    ELSE IF score >= CRITICAL_NEDOCS_THRESHOLD THEN "Critical"
    ELSE IF ~FloatLessNonNeg(FloatFromInt(score), warning_threshold)
         THEN "Warning"
    ELSE "Normal"

\* the multiplier at every temperature and humidity position, computed once
heat_table ==
    [t \in TempDomain |->
        [hk \in HumiditySteps |-> HeatIndexMultiplier(t, HumidityAt(hk))]]

\* lines 46-47 of a run, given the buckets
Scored(on, acs, ed) ==
    [onsite_treat   |-> on,
     acs_telehealth |-> acs,
     ed_transports  |-> ed,
     nedocs_score   |-> NedocsScore(SurgeBurden(ed))]

\* line 41 of a run, given the two truncated buckets
Split(tp, on, acs) == Scored(on, acs, EdTransports(tp, on, acs))

\* lines 39-47 of a run: the split of the patients and the uncapped score
Allocation(tp) == Split(tp, OnsiteTreat(tp), AcsTelehealth(tp))

\* the largest total the formulas can give, every slider at its maximum,
\* and one more
TableSize ==
    (AttendanceMax * 15 * (100 + 5 * (TempMax - 85) + (HumidityMax - 60)) * 2)
        \div (10000 * 100) + 1

\* Allocation of every total up to TableSize, computed once
allocation_table == [tp \in 0..TableSize |-> Allocation(tp)]

AllocationOf(tp) ==
    IF tp \in 0..TableSize THEN allocation_table[tp] ELSE Allocation(tp)

\* a run's record, given the multiplier, the total and its allocation
Computed(him, tp, al) ==
    [heat_index_multiplier |-> him,
     total_patients        |-> tp,
     onsite_treat          |-> al.onsite_treat,
     acs_telehealth        |-> al.acs_telehealth,
     ed_transports         |-> al.ed_transports,
     nedocs_score          |-> al.nedocs_score]

\* lines 39-47 of a run, given the multiplier and the total
Allocated(him, tp) == Computed(him, tp, AllocationOf(tp))

\* lines 32-47 of a run, given the multiplier
Generated(a, v, him) == Allocated(him, TotalPatients(a, him, VenueMultiplier(v)))

\* one run of the script up to the uncapped score
RunScript(a, t, h, v) ==
    Generated(a, v, heat_table[t][(h - HumidityMin) \div HumidityStep])

\* the runs of the script over the widget domains, computed once
run_table ==
    [ak \in AttendanceSteps |-> [t \in TempDomain |-> [hk \in HumiditySteps |->
        [v \in VenueDomain |-> RunScript(AttendanceAt(ak), t, HumidityAt(hk), v)]]]]

\* the run of the script with widget values a, t, h, v
RunOf(a, t, h, v) ==
    run_table[(a - AttendanceMin) \div AttendanceStep][t]
             [(h - HumidityMin) \div HumidityStep][v]

(***************************************************************************)
(* State: the widgets and what the last run of the script displayed.       *)
(***************************************************************************)
VARIABLES attendance, temp, humidity, venue_type,
          heat_index_multiplier, total_patients, onsite_treat,
          acs_telehealth, ed_transports, nedocs_score, banner

inputs == <<attendance, temp, humidity, venue_type>>

outputs == <<heat_index_multiplier, total_patients, onsite_treat,
             acs_telehealth, ed_transports, nedocs_score, banner>>

vars == <<attendance, temp, humidity, venue_type,
          heat_index_multiplier, total_patients, onsite_treat,
          acs_telehealth, ed_transports, nedocs_score, banner>>

\* the script's first run, with every widget at its default value
Init ==
    \E r \in {RunOf(AttendanceDefault, TempDefault, HumidityDefault, Bounded)} :
        /\ attendance = AttendanceDefault
        /\ temp = TempDefault
        /\ humidity = HumidityDefault
        /\ venue_type = Bounded
        /\ heat_index_multiplier = r.heat_index_multiplier
        /\ total_patients = r.total_patients
        /\ onsite_treat = r.onsite_treat
        /\ acs_telehealth = r.acs_telehealth
        /\ ed_transports = r.ed_transports
        /\ nedocs_score = CapScore(r.nedocs_score)
        /\ banner = Banner(TempDefault, CapScore(r.nedocs_score))

\* a rerun that keeps the highest score of the session instead of the
\* score of this run
RerunKeepingPeak(a, t, h, v) ==
    \E r \in {RunOf(a, t, h, v)} :
      \E peak \in {Max(nedocs_score, CapScore(r.nedocs_score))} :
        /\ attendance' = a
        /\ temp' = t
        /\ humidity' = h
        /\ venue_type' = v
        /\ heat_index_multiplier' = r.heat_index_multiplier
        /\ total_patients' = r.total_patients
        /\ onsite_treat' = r.onsite_treat
        /\ acs_telehealth' = r.acs_telehealth
        /\ ed_transports' = r.ed_transports
        /\ nedocs_score' = peak
        /\ banner' = Banner(t, peak)

\* a rerun of the script with widget values a, t, h, v
Rerun(a, t, h, v) ==
    \E r \in {RunOf(a, t, h, v)} :
        /\ attendance' = a
        /\ temp' = t
        /\ humidity' = h
        /\ venue_type' = v
        /\ heat_index_multiplier' = r.heat_index_multiplier
        /\ total_patients' = r.total_patients
        /\ onsite_treat' = r.onsite_treat
        /\ acs_telehealth' = r.acs_telehealth
        /\ ed_transports' = r.ed_transports
        /\ nedocs_score' = CapScore(r.nedocs_score)
        /\ banner' = Banner(t, CapScore(r.nedocs_score))

SetAttendance == \E a \in AttendanceDomain : Rerun(a, temp, humidity, venue_type)

SetTemp == \E t \in TempDomain : Rerun(attendance, t, humidity, venue_type)

SetHumidity == \E h \in HumidityDomain : Rerun(attendance, temp, h, venue_type)

SetVenue == \E v \in VenueDomain : Rerun(attendance, temp, humidity, v)

Next == SetAttendance \/ SetTemp \/ SetHumidity \/ SetVenue

Spec == Init /\ [][Next]_vars

(***************************************************************************)
(* Properties.                                                             *)
(***************************************************************************)
FloatOne == FloatFromInt(1)

\* the other three widgets keep their values in the step
OnlyAttendanceMoves ==
    temp' = temp /\ humidity' = humidity /\ venue_type' = venue_type

OnlyTempMoves ==
    attendance' = attendance /\ humidity' = humidity /\ venue_type' = venue_type

\* the displayed values of the run with the given widget values
ScoreAt(a, t, h, v) == CapScore(RunOf(a, t, h, v).nedocs_score)

\* C1: in every run the three buckets are non-negative and add up to the
\* total: onsite_treat + acs_telehealth + ed_transports = total_patients.
C1_Partition ==
    /\ onsite_treat + acs_telehealth + ed_transports = total_patients
    /\ onsite_treat >= 0
    /\ acs_telehealth >= 0
    /\ ed_transports >= 0

\* a run where both truncated buckets lost a fraction and the remainder
\* bucket took it up
C1_Witness ==
    /\ attendance = AttendanceMax
    /\ total_patients > 0
    /\ 100 * onsite_treat < 65 * total_patients
    /\ 100 * acs_telehealth < 15 * total_patients
    /\ 100 * ed_transports > 20 * total_patients

\* C2: the displayed nedocs_score is an integer between 0 and 200.
C2_ScoreRange == nedocs_score \in 0..ScoreCap

\* a run whose uncapped score 80 + ed_transports * 60 / 80 is above 200
C2_Witness ==
    /\ nedocs_score = ScoreCap
    /\ 80 * BASELINE_ED_CAPACITY + 60 * ed_transports
          > (ScoreCap + 1) * BASELINE_ED_CAPACITY

\* C3: at 98 degrees or more the banner is the heat override, whatever the
\* attendance, humidity, venue and score.
C3_HeatOverride == temp >= HeatOverrideTemp => banner = "Override"

\* an override shown although the score is below the warning threshold
C3_Witness ==
    /\ temp >= HeatOverrideTemp
    /\ nedocs_score < 133
    /\ banner = "Override"

\* C4: below 98 degrees the banner is Critical exactly when the score is at
\* least 140, Warning exactly when it is in 133..139, Normal exactly when it
\* is below 133.
C4_TierByScore ==
    temp < HeatOverrideTemp =>
        /\ banner \in {"Critical", "Warning", "Normal"}
        /\ banner = "Critical" <=> nedocs_score >= 140
        /\ banner = "Warning" <=> (133 <= nedocs_score /\ nedocs_score < 140)
        /\ banner = "Normal" <=> nedocs_score < 133

\* a run below 98 degrees whose score is exactly the warning threshold
C4_Witness ==
    /\ temp < HeatOverrideTemp
    /\ nedocs_score = 133
    /\ banner = "Warning"

(***************************************************************************)
(* The reference formulas of C5, evaluated exactly in integers: the        *)
(* multiplier is held as hundredths, and floor is integer division.        *)
(***************************************************************************)
RefEnvHundredths(t, h) == 100 + 5 * Max(0, t - 85) + Max(0, h - 60)

RefVenue(v) == IF v = Unbounded THEN 2 ELSE 1

RefTotal(a, t, h, v) ==
    (a * 15 * RefEnvHundredths(t, h) * RefVenue(v)) \div (10000 * 100)

RefOnSite(tp) == (65 * tp) \div 100

RefDeflected(tp) == (15 * tp) \div 100

RefEdTransports(tp) == tp - RefOnSite(tp) - RefDeflected(tp)

RefCapped(ed) == Min((80 * 80 + 60 * ed) \div 80, 200)

RefTier(t, capped) ==
    IF t >= 98 THEN "Override"
    ELSE IF capped >= 140 THEN "Critical"
    ELSE IF capped >= 133 THEN "Warning"
    ELSE "Normal"

\* C5: every run displays the values of the reference formulas evaluated
\* exactly, with truncation toward zero.
C5_MatchesReference ==
    LET tp == RefTotal(attendance, temp, humidity, venue_type)
        ed == RefEdTransports(tp)
    IN  /\ total_patients = tp
        /\ onsite_treat = RefOnSite(tp)
        /\ acs_telehealth = RefDeflected(tp)
        /\ ed_transports = ed
        /\ nedocs_score = RefCapped(ed)
        /\ banner = RefTier(temp, RefCapped(ed))

\* C6: a step that raises the attendance and leaves the other widgets alone
\* never lowers total_patients.
C6_TotalMonotoneInAttendance ==
    [][(OnlyAttendanceMoves /\ attendance' > attendance)
          => total_patients' >= total_patients]_vars

\* the attendance slider at its maximum, with more patients than the same
\* scenario has at the slider's minimum
C6_Witness ==
    /\ attendance = AttendanceMax
    /\ total_patients
          > RunOf(AttendanceMin, temp, humidity, venue_type).total_patients

\* C7: the multiplier is at least 1.0 in every run; a temperature of 85 or
\* less adds nothing to it; and a step that raises the temperature at the
\* same humidity never lowers it.
C7_StatePart ==
    /\ ~FloatLessNonNeg(heat_index_multiplier, FloatOne)
    /\ (temp <= 85 /\ humidity <= 60) => heat_index_multiplier = FloatOne

C7_StepPart ==
    /\ (humidity' = humidity /\ temp' > temp)
          => ~FloatLessNonNeg(heat_index_multiplier', heat_index_multiplier)
    /\ (humidity' = humidity /\ temp <= 85 /\ temp' <= 85)
          => heat_index_multiplier' = heat_index_multiplier

C7_MultiplierMonotoneInTemp == []C7_StatePart /\ [][C7_StepPart]_vars

\* the temperature slider at its maximum, with a multiplier above the one
\* the same humidity has at 85 degrees
C7_Witness ==
    /\ temp = TempMax
    /\ FloatLessNonNeg(RunOf(attendance, 85, humidity, venue_type).heat_index_multiplier,
                       heat_index_multiplier)

\* C8: what a run displays depends on the widget values only.  Whenever the
\* widgets are back at their defaults the display is that of the first run,
\* whenever they are all at their minimum the display is the same one, and
\* a rerun with unchanged widget values changes nothing.
C8_AtDefaults ==
    inputs = <<AttendanceDefault, TempDefault, HumidityDefault, Bounded>>
        => /\ <<total_patients, onsite_treat, acs_telehealth,
                ed_transports, nedocs_score, banner>>
                  = <<97, 63, 14, 20, 95, "Normal">>
           /\ heat_index_multiplier = FloatOne

C8_AtMinimum ==
    inputs = <<AttendanceMin, TempMin, HumidityMin, Bounded>>
        => /\ <<total_patients, onsite_treat, acs_telehealth,
                ed_transports, nedocs_score, banner>>
                  = <<15, 9, 2, 4, 83, "Normal">>
           /\ heat_index_multiplier = FloatOne

C8_DependsOnInputsOnly ==
    /\ [](C8_AtDefaults /\ C8_AtMinimum)
    /\ [][inputs' = inputs => outputs' = outputs]_vars

\* every slider at its minimum: a scenario that is only evaluated after
\* other scenarios were
C8_Witness ==
    /\ inputs = <<AttendanceMin, TempMin, HumidityMin, Bounded>>
    /\ nedocs_score = 83

\* C9 as stated: a step that raises the temperature and leaves the other
\* widgets alone never lowers the displayed nedocs_score.
C9_ScoreMonotoneInTemp ==
    [][(OnlyTempMoves /\ temp' > temp) => nedocs_score' >= nedocs_score]_vars

\* C9 as amended: a step that raises the temperature and leaves the other
\* widgets alone lowers the displayed nedocs_score by at most one point.
C9_ScoreDropsAtMostOne ==
    [][(OnlyTempMoves /\ temp' > temp)
          => nedocs_score' >= nedocs_score - 1]_vars

\* a scenario whose score is one point below the score of the same scenario
\* one degree cooler
C9_Witness ==
    /\ temp > TempMin
    /\ nedocs_score = ScoreAt(attendance, temp - 1, humidity, venue_type) - 1

\* C10: a step that raises the attendance and leaves the other widgets alone
\* lowers neither ed_transports nor the displayed nedocs_score.
C10_TransportsMonotoneInAttendance ==
    [][(OnlyAttendanceMoves /\ attendance' > attendance)
          => /\ ed_transports' >= ed_transports
             /\ nedocs_score' >= nedocs_score]_vars

\* the attendance slider at its maximum, with more transports and a higher
\* score than the same scenario one slider step lower
C10_Witness ==
    /\ attendance = AttendanceMax
    /\ LET lower == RunOf(attendance - AttendanceStep, temp, humidity, venue_type)
       IN  /\ ed_transports > lower.ed_transports
           /\ nedocs_score > CapScore(lower.nedocs_score)

====
